---- MODULE Spec2Model ----
(***************************************************************************)
(* Model of libmw: PipelineBuilder (with / when / assemble), the Arc'ed    *)
(* continuation chain it builds, Pipeline::invoke, and the handlers of     *)
(* libmw-handlers (repeat).  A traversal is executed one middleware step   *)
(* at a time on an explicit call stack, so that traversals can be          *)
(* interleaved and a traversal that never returns is a cycle of states.    *)
(***************************************************************************)
EXTENDS Integers, Sequences, FiniteSets, TLC

\* ------------------------------------------------------------- bounds
\* longest middleware list registered on the top-level builder
MaxLen == 3
\* largest repeat counter a context starts with
MaxCount == 3
\* longest side-effect log of one traversal
MaxLog == 14
\* most middleware steps of a traversal run on its own
MaxFuel == 80

\* ------------------------------------------------------------- values
\* Option<T>
None == <<>>
Some(x) == <<x>>

\* Result<(), Box<dyn Error>>; err is the message of PipelineError::Generic
Ok == [ok |-> TRUE, err |-> 0]
Err(e) == [ok |-> FALSE, err |-> e]

\* Pipeline { next: Option<Thunk> }; a Thunk is the address of an Arc'ed closure
Pipeline(next) == [next |-> next]

\* A caller-defined context.  ty is the concrete type behind dyn PipelineContext;
\* take_branch is the field of tests::Context; count and delay back the
\* Repeatable implementation.
Ctx(ty, tb, n, d) == [ty |-> ty, take_branch |-> tb, count |-> n, delay |-> d]

\* what the caller registers: with(middleware) or when(predicate, builder)
Mw(kind, id) == [kind |-> kind, id |-> id, pred |-> "none", f |-> <<>>]
WhenOp(p, f) == [kind |-> "when", id |-> 0, pred |-> p, f |-> f]

\* side-effect log entries of the handlers
Pre(id) == <<"pre", id>>
Post(id) == <<"post", id>>
Slept(ms) == <<"sleep", ms>>
Asked(id) == <<"pred", id>>

\* ---------------------------------------------------- PipelineBuilder
\* with: self.middleware.push(Box::new(middleware))
with(middleware, m) ==
    Append(middleware, [kind |-> m.kind, id |-> m.id, pred |-> "none",
                        branch |-> Pipeline(None)])

\* middleware.into_iter().rev(); IntoIterRevFwd is the iteration without rev()
IntoIterRevFwd(v) == v
IntoIterRev(v) == [i \in 1..Len(v) |-> v[Len(v) + 1 - i]]

\* the closure built for the first middleware taken from the reversed
\* iterator: move |ctx| mw(ctx, Pipeline { next: None }), stored at address a.
\* AssembleFirstSelf is a closure that hands its own address on instead.
AssembleFirstSelf(mw, a) == [mw |-> mw, n |-> Some(a)]
AssembleFirst(mw, a) == [mw |-> mw, n |-> None]

\* the closure built for every other middleware:
\* move |ctx| mw(ctx, Pipeline { next: Some(n.clone()) })
AssembleWrap(mw, n) == [mw |-> mw, n |-> Some(n)]

\* the while-let loop of assemble; h is the heap of Arc'ed closures
RECURSIVE AssembleLoop(_, _, _)
AssembleLoop(iter, chain, h) ==
    IF iter = <<>> THEN [chain |-> chain, heap |-> h]
    ELSE LET mw == Head(iter)
             a == Len(h) + 1
         IN  IF chain = None
             THEN AssembleLoop(Tail(iter), Some(Pipeline(Some(a))),
                               Append(h, AssembleFirst(mw, a)))
             ELSE LET n == chain[1].next[1]
                  IN  AssembleLoop(Tail(iter), Some(Pipeline(Some(a))),
                                   Append(h, AssembleWrap(mw, n)))

\* assemble: chain.unwrap() panics when the loop never ran
assemble(middleware, h) ==
    LET r == AssembleLoop(IntoIterRev(middleware), None, h)
    IN  IF r.chain = None
        THEN [panic |-> TRUE, pipeline |-> Pipeline(None), heap |-> h]
        ELSE [panic |-> FALSE, pipeline |-> r.chain[1], heap |-> r.heap]

\* when: a fresh builder, the branch function run on it, the branch assembled,
\* and one closure pushed that captures (predicate, branch).  BranchThunk is
\* the call builder(&mut branch_builder): f lists what the function registers.
RECURSIVE when(_, _, _, _), BranchThunk(_, _, _)
\* whenShared is a when that hands the branch function the builder's own
\* list instead of a new builder.
whenShared(mws, h, predicate, builder) ==
    LET bb == BranchThunk(builder, mws, h)
        br == assemble(bb.middleware, bb.heap)
    IN  IF bb.panic \/ br.panic
        THEN [middleware |-> mws, heap |-> h, panic |-> TRUE]
        ELSE [middleware |-> Append(mws, [kind |-> "when", id |-> 0,
                                          pred |-> predicate,
                                          branch |-> br.pipeline]),
              heap |-> br.heap, panic |-> FALSE]

BranchThunk(f, mws, h) ==
    IF f = <<>> THEN [middleware |-> mws, heap |-> h, panic |-> FALSE]
    ELSE LET op == Head(f)
             b == IF op.kind = "when"
                  THEN when(mws, h, op.pred, op.f)
                  ELSE [middleware |-> with(mws, op), heap |-> h, panic |-> FALSE]
         IN  IF b.panic THEN b ELSE BranchThunk(Tail(f), b.middleware, b.heap)

when(mws, h, predicate, builder) ==
    LET bb == BranchThunk(builder, <<>>, h)
        br == assemble(bb.middleware, bb.heap)
    IN  IF bb.panic \/ br.panic
        THEN [middleware |-> mws, heap |-> h, panic |-> TRUE]
        ELSE [middleware |-> Append(mws, [kind |-> "when", id |-> 0,
                                          pred |-> predicate,
                                          branch |-> br.pipeline]),
              heap |-> br.heap, panic |-> FALSE]

\* ------------------------------------------------- caller-supplied code
\* the pre-continuation work of a handler on the context: it recovers the
\* concrete type and counts down its counter
Touch(c) == IF c.count > 0 THEN [c EXCEPT !.count = @ - 1] ELSE c

\* PredicateThunk: fn(&mut dyn PipelineContext) -> bool.  "flag" is the
\* predicate of tests::it_works: take_branch of a Context, false otherwise
\* and touches nothing; "mark" answers the same, after it has reported the
\* call and counted the context's counter down
Predicate(p, c) ==
    IF p = "mark"
    THEN [val |-> c.ty = "Context" /\ c.take_branch, ctx |-> Touch(c),
          out |-> <<Asked(0)>>]
    ELSE [val |-> c.ty = "Context" /\ c.take_branch, ctx |-> c, out |-> <<>>]

\* Repeatable of the context type
should_repeat(c) == c.count > 0
delay(c) == c.delay

\* ----------------------------------------------------------- handlers
\* What one step of a middleware activation does: the next position (or
\* "return"), the context, the log entries written, the handle it invokes,
\* the value it returns.
Eff(pc, c, out, inv, ret) ==
    [pc |-> pc, ctx |-> c, out |-> out, invoke |-> inv, ret |-> ret]

\* the closures of tests::it_works: work, next.invoke(ctx)?, work, Ok(())
\* WrapMwFinally is a closure that does its second work before it looks at
\* what next.invoke returned.
WrapMwFinally(fr, c, r) ==
    CASE fr.pc = "pre" -> Eff("call", Touch(c), <<Pre(fr.mw.id)>>, None, None)
      [] fr.pc = "call" -> Eff("post", c, <<>>, Some(fr.next), None)
      [] OTHER -> Eff("return", c, <<Post(fr.mw.id)>>, None, Some(r))
WrapMw(fr, c, r) ==
    CASE fr.pc = "pre" -> Eff("call", Touch(c), <<Pre(fr.mw.id)>>, None, None)
      [] fr.pc = "call" -> Eff("post", c, <<>>, Some(fr.next), None)
      [] OTHER -> IF r.ok
                  THEN Eff("return", c, <<Post(fr.mw.id)>>, None, Some(Ok))
                  ELSE Eff("return", c, <<>>, None, Some(r))

\* a handler that fails: Err(PipelineError::Generic(..).into())
FailMw(fr, c, r) ==
    Eff("return", Touch(c), <<Pre(fr.mw.id)>>, None, Some(Err(fr.mw.id)))

\* a handler that handles a failure of its continuation itself: work,
\* let _ = next.invoke(ctx), work, Ok(())
CatchMwPropagate(fr, c, r) ==
    CASE fr.pc = "pre" -> Eff("call", Touch(c), <<Pre(fr.mw.id)>>, None, None)
      [] fr.pc = "call" -> Eff("post", c, <<>>, Some(fr.next), None)
      [] OTHER -> IF r.ok
                  THEN Eff("return", c, <<Post(fr.mw.id)>>, None, Some(Ok))
                  ELSE Eff("return", c, <<>>, None, Some(r))
CatchMw(fr, c, r) ==
    CASE fr.pc = "pre" -> Eff("call", Touch(c), <<Pre(fr.mw.id)>>, None, None)
      [] fr.pc = "call" -> Eff("post", c, <<>>, Some(fr.next), None)
      [] OTHER -> Eff("return", c, <<Post(fr.mw.id)>>, None, Some(Ok))

\* a handler that works on the context and fails when that leaves the
\* counter at one; it does not call its continuation
TripMw(fr, c, r) ==
    Eff("return", Touch(c), <<Pre(fr.mw.id)>>, None,
        Some(IF Touch(c).count = 1 THEN Err(fr.mw.id) ELSE Ok))

\* libmw_handlers::end.  EndMwPass is a handler that calls its continuation,
\* as net::tcp::send does.
EndMwPass(fr, c, r) ==
    CASE fr.pc = "pre" -> Eff("post", c, <<>>, Some(fr.next), None)
      [] OTHER -> Eff("return", c, <<>>, None, Some(r))
EndMw(fr, c, r) == Eff("return", c, <<>>, None, Some(Ok))

\* the closure pushed by when.  WhenMwBoth is a when that merges back: after a
\* successful branch it goes on to the outer continuation.
\* WhenMwFallback is a when that goes on to the outer continuation after a
\* failed branch.  WhenMwTwice is a when that asks its predicate a second
\* time after it has chosen.
WhenMwFallback(fr, c, r) ==
    CASE fr.pc = "pre" ->
            LET p == Predicate(fr.mw.pred, c)
            IN  IF p.val
                THEN Eff("branch", p.ctx, p.out, Some(fr.mw.branch), None)
                ELSE Eff("ret", p.ctx, p.out, Some(fr.next), None)
      [] fr.pc = "branch" /\ ~r.ok -> Eff("ret", c, <<>>, Some(fr.next), None)
      [] OTHER -> Eff("return", c, <<>>, None, Some(r))
WhenMwTwice(fr, c, r) ==
    CASE fr.pc = "pre" ->
            LET p1 == Predicate(fr.mw.pred, c)
                p == Predicate(fr.mw.pred, p1.ctx)
            IN  IF p1.val
                THEN Eff("ret", p.ctx, p1.out \o p.out, Some(fr.mw.branch), None)
                ELSE Eff("ret", p.ctx, p1.out \o p.out, Some(fr.next), None)
      [] OTHER -> Eff("return", c, <<>>, None, Some(r))
WhenMwBoth(fr, c, r) ==
    CASE fr.pc = "pre" ->
            LET p == Predicate(fr.mw.pred, c)
            IN  IF p.val THEN Eff("ret", p.ctx, p.out, Some(fr.mw.branch), None)
                ELSE Eff("ret", p.ctx, p.out, Some(fr.next), None)
      [] fr.pc = "ret" /\ r.ok /\ Predicate(fr.mw.pred, c).val ->
            Eff("joined", c, <<>>, Some(fr.next), None)
      [] OTHER -> Eff("return", c, <<>>, None, Some(r))
WhenMw(fr, c, r) ==
    CASE fr.pc = "pre" ->
            LET p == Predicate(fr.mw.pred, c)
            IN  IF p.val THEN Eff("ret", p.ctx, p.out, Some(fr.mw.branch), None)
                ELSE Eff("ret", p.ctx, p.out, Some(fr.next), None)
      [] OTHER -> Eff("return", c, <<>>, None, Some(r))

\* ctx.as_any_mut().downcast_mut::<CtxType>() of repeat::<Context>
Downcast(c) == c.ty = "Context"

\* libmw_handlers::repeat.  RepeatMwOnce has an if for the while;
\* RepeatMwDelegate passes a context of another type on to the continuation.
\* RepeatMwIgnore drops what next.invoke returned.
RepeatMwIgnore(fr, c, r) ==
    CASE fr.pc = "pre" ->
            IF Downcast(c) THEN Eff("loop", c, <<>>, None, None)
            ELSE Eff("return", c, <<>>, None, Some(Ok))
      [] fr.pc = "loop" ->
            IF should_repeat(c) THEN Eff("back", c, <<>>, Some(fr.next), None)
            ELSE Eff("return", c, <<>>, None, Some(Ok))
      [] OTHER ->
            Eff("loop", c,
                IF delay(c) = None THEN <<>> ELSE <<Slept(delay(c)[1])>>,
                None, None)
RepeatMwOnce(fr, c, r) ==
    CASE fr.pc = "pre" ->
            IF Downcast(c) THEN Eff("loop", c, <<>>, None, None)
            ELSE Eff("return", c, <<>>, None, Some(Ok))
      [] fr.pc = "loop" ->
            IF should_repeat(c) THEN Eff("back", c, <<>>, Some(fr.next), None)
            ELSE Eff("return", c, <<>>, None, Some(Ok))
      [] OTHER -> Eff("return", c, <<>>, None, Some(r))
RepeatMwDelegate(fr, c, r) ==
    CASE fr.pc = "pre" ->
            IF Downcast(c) THEN Eff("loop", c, <<>>, None, None)
            ELSE Eff("tail", c, <<>>, Some(fr.next), None)
      [] fr.pc = "tail" -> Eff("return", c, <<>>, None, Some(r))
      [] fr.pc = "loop" ->
            IF should_repeat(c) THEN Eff("back", c, <<>>, Some(fr.next), None)
            ELSE Eff("return", c, <<>>, None, Some(Ok))
      [] OTHER ->
            IF ~r.ok THEN Eff("return", c, <<>>, None, Some(r))
            ELSE Eff("loop", c,
                     IF delay(c) = None THEN <<>> ELSE <<Slept(delay(c)[1])>>,
                     None, None)
RepeatMw(fr, c, r) ==
    CASE fr.pc = "pre" ->
            IF Downcast(c) THEN Eff("loop", c, <<>>, None, None)
            ELSE Eff("return", c, <<>>, None, Some(Ok))
      [] fr.pc = "loop" ->
            IF should_repeat(c) THEN Eff("back", c, <<>>, Some(fr.next), None)
            ELSE Eff("return", c, <<>>, None, Some(Ok))
      [] OTHER ->
            IF ~r.ok THEN Eff("return", c, <<>>, None, Some(r))
            ELSE Eff("loop", c,
                     IF delay(c) = None THEN <<>> ELSE <<Slept(delay(c)[1])>>,
                     None, None)

MwStep(fr, c, r) ==
    CASE fr.mw.kind = "wrap" -> WrapMw(fr, c, r)
      [] fr.mw.kind = "fail" -> FailMw(fr, c, r)
      [] fr.mw.kind = "when" -> WhenMw(fr, c, r)
      [] fr.mw.kind = "end" -> EndMw(fr, c, r)
      [] fr.mw.kind = "catch" -> CatchMw(fr, c, r)
      [] fr.mw.kind = "trip" -> TripMw(fr, c, r)
      [] OTHER -> RepeatMw(fr, c, r)

\* ----------------------------------------------------- Pipeline::invoke
\* (*(self.next.as_ref().unwrap()))(ctx)?; Ok(())  -- what invoke returns
\* for what the closure returned.  InvokeReturnGeneric is an invoke that
\* reports a failure with an error of its own.
InvokeReturnGeneric(x) == IF x.ok THEN Ok ELSE Err(0)
InvokeReturn(x) == IF x.ok THEN Ok ELSE Err(x.err)

\* the handle a closure passes to its middleware
ThunkNext(th) == Pipeline(th.n)

\* the closure after a call: it is Fn and clones n, so it is as it was.
\* ThunkAfterTake is a closure that gives its n away with the first call.
ThunkAfterTake(th) == [th EXCEPT !.n = None]
ThunkAfter(th) == th

\* the activation of the closure th: mw(ctx, Pipeline { next: .. })
Call(th) == [mw |-> th.mw, next |-> ThunkNext(th), pc |-> "pre"]

Top(s) == s[Len(s)]
Pop(s) == SubSeq(s, 1, Len(s) - 1)
SetPc(s, pc) == [s EXCEPT ![Len(s)].pc = pc]

\* the state of one traversal: st is idle, running or done
Idle ==
    [st |-> "idle", ctx0 |-> Ctx("Other", FALSE, 0, None),
     ctx |-> Ctx("Other", FALSE, 0, None), stack |-> <<>>, ret |-> None,
     log |-> <<>>]

\* a traversal about to start on context c
Start(c) == [Idle EXCEPT !.ctx0 = c, !.ctx = c]

\* p.invoke(ctx) called with the stack s below it
invoke(L, s, p, h) ==
    IF p.next = None
    THEN [local |-> [L EXCEPT !.stack = s, !.ret = Some(Ok),
                              !.st = IF s = <<>> THEN "done" ELSE "running"],
          heap |-> h]
    ELSE LET a == p.next[1]
         IN  [local |-> [L EXCEPT !.stack = Append(s, Call(h[a])),
                                  !.ret = None, !.st = "running"],
              heap |-> [h EXCEPT ![a] = ThunkAfter(h[a])]]

\* one step of the activation on top of the stack
StepLocal(L, h) ==
    LET fr == Top(L.stack)
        r == IF L.ret = None THEN Ok ELSE L.ret[1]
        e == MwStep(fr, L.ctx, r)
        L1 == [L EXCEPT !.ctx = e.ctx, !.log = L.log \o e.out]
    IN  IF e.pc = "return"
        THEN [local |-> [L1 EXCEPT !.stack = Pop(L.stack),
                                   !.ret = Some(InvokeReturn(e.ret[1])),
                                   !.st = IF Len(L.stack) = 1 THEN "done"
                                          ELSE "running"],
              heap |-> h]
        ELSE IF e.invoke = None
        THEN [local |-> [L1 EXCEPT !.stack = SetPc(L.stack, e.pc),
                                   !.ret = None],
              heap |-> h]
        ELSE invoke(L1, SetPc(L.stack, e.pc), e.invoke[1], h)

\* assemble(self) takes the builder by value: with, when and assemble can
\* be called while the caller still owns it.  UsableAfter is a builder that
\* assemble only borrows.
UsableAfter(ph) == ph \in {"building", "assembled"}
Usable(ph) == ph = "building"

\* -------------------------------------------------------------- state
VARIABLES
    phase,       \* "building", "assembled" or "panicked"
    middleware,  \* PipelineBuilder.middleware
    registered,  \* what the caller registered, in order
    heap,        \* the Arc'ed closures, by address
    pipeline,    \* the assembled Pipeline
    trav,        \* the traversals, by caller
    earlier      \* an earlier invocation the caller remembers, if any

vars == <<phase, middleware, registered, heap, pipeline, trav, earlier>>

Trav == {1, 2}

\* PipelineBuilder::new()
Init ==
    /\ phase = "building"
    /\ middleware = <<>>
    /\ registered = <<>>
    /\ heap = <<>>
    /\ pipeline = Pipeline(None)
    /\ trav = [t \in Trav |-> Idle]
    /\ earlier = None

\* builder.with(m); the handler is labelled by its position
With(kind) ==
    /\ Usable(phase)
    /\ Len(middleware) < MaxLen
    /\ LET m == Mw(kind, Len(middleware) + 1)
       IN  /\ middleware' = with(middleware, m)
           /\ registered' = Append(registered, m)
    /\ UNCHANGED <<phase, heap, pipeline, trav, earlier>>

\* builder.when(p, f)
When(p, f) ==
    /\ Usable(phase)
    /\ Len(middleware) < MaxLen
    /\ LET b == when(middleware, heap, p, f)
       IN  /\ middleware' = b.middleware
           /\ heap' = b.heap
           /\ phase' = IF b.panic THEN "panicked" ELSE "building"
           /\ registered' = IF b.panic THEN registered
                            ELSE Append(registered, WhenOp(p, f))
    /\ UNCHANGED <<pipeline, trav, earlier>>

\* builder.assemble()
Assemble ==
    /\ Usable(phase)
    /\ LET r == assemble(middleware, heap)
       IN  /\ phase' = IF r.panic THEN "panicked" ELSE "assembled"
           /\ pipeline' = r.pipeline
           /\ heap' = r.heap
           /\ middleware' = IF r.panic THEN middleware ELSE <<>>
    /\ UNCHANGED <<registered, trav, earlier>>

\* pipeline.invoke(&mut context)
Invoke(t, c) ==
    /\ phase = "assembled"
    /\ trav[t].st = "idle"
    /\ LET r == invoke(Start(c), <<>>, pipeline, heap)
       IN  /\ trav' = [trav EXCEPT ![t] = r.local]
           /\ heap' = r.heap
    /\ UNCHANGED <<phase, middleware, registered, pipeline, earlier>>

\* one middleware step of traversal t
Step(t) ==
    /\ trav[t].st = "running"
    /\ Len(trav[t].log) < MaxLog
    /\ LET r == StepLocal(trav[t], heap)
       IN  /\ trav' = [trav EXCEPT ![t] = r.local]
           /\ heap' = r.heap
    /\ UNCHANGED <<phase, middleware, registered, pipeline, earlier>>

\* the caller is done with the context of a finished invocation
Discard(t) ==
    /\ trav[t].st = "done"
    /\ trav' = [trav EXCEPT ![t] = Idle]
    /\ UNCHANGED <<phase, middleware, registered, heap, pipeline, earlier>>

\* what the caller keeps of a finished invocation
Outcome(L) == [ctx0 |-> L.ctx0, ctx |-> L.ctx, log |-> L.log, ret |-> L.ret]

\* the caller notes the outcome of a finished invocation before it lets go
\* of the context
Remember(t) ==
    /\ trav[t].st = "done"
    /\ earlier' = Some(Outcome(trav[t]))
    /\ trav' = [trav EXCEPT ![t] = Idle]
    /\ UNCHANGED <<phase, middleware, registered, heap, pipeline>>

\* ------------------------------------------------------------- inputs
\* branch functions: what each registers on the nested builder
BrNone == <<>>
BrOne == <<Mw("wrap", 11)>>
BrTwo == <<Mw("wrap", 21), Mw("wrap", 22)>>
BrFail == <<Mw("wrap", 31), Mw("fail", 32)>>
BrNested == <<Mw("wrap", 41), WhenOp("flag", <<Mw("wrap", 51)>>), Mw("wrap", 43)>>
BrNestedNone == <<Mw("wrap", 61), WhenOp("flag", <<>>)>>
BrEnd == <<Mw("wrap", 71), Mw("end", 72), Mw("wrap", 73)>>

BranchFns == {BrNone, BrOne, BrTwo, BrFail, BrNested, BrNestedNone}

\* contexts of type Context with the given flags, counters and delays, and
\* contexts of another type
Contexts(flags, counts, delays) ==
    {Ctx("Context", tb, n, d) : tb \in flags, n \in counts, d \in delays}
    \cup {Ctx("Other", FALSE, n, None) : n \in counts}

\* ------------------------------------------------------ specifications
\* the core: with, when, assemble and invoke, one invocation at a time
Next ==
    \/ \E k \in {"wrap", "fail"} : With(k)
    \/ \E f \in BranchFns : When("flag", f)
    \/ Assemble
    \/ \E c \in Contexts(BOOLEAN, {0, MaxCount}, {None}) : Invoke(1, c)
    \/ Step(1)
    \/ Discard(1)

Spec == Init /\ [][Next]_vars

\* the repeat handler of libmw-handlers in front of other middleware
NextRepeat ==
    \/ \E k \in {"repeat", "wrap", "fail", "trip"} : With(k)
    \/ When("flag", BrOne)
    \/ Assemble
    \/ \E c \in Contexts(BOOLEAN, 0..MaxCount, {None, Some(0)}) : Invoke(1, c)
    \/ Step(1)
    \/ Discard(1)

SpecRepeat == Init /\ [][NextRepeat]_vars

\* one pipeline invoked again and again, the caller remembering an outcome
NextReinvoke ==
    \/ \E k \in {"wrap", "fail", "repeat"} : With(k)
    \/ \E f \in {BrOne, BrFail} : When("flag", f)
    \/ Assemble
    \/ \E c \in Contexts(BOOLEAN, {0, MaxCount}, {None}) : Invoke(1, c)
    \/ Step(1)
    \/ Discard(1)
    \/ Remember(1)

SpecReinvoke == Init /\ [][NextReinvoke]_vars

\* one pipeline invoked by two callers, each with a context of its own,
\* their middleware steps interleaved
NextShared ==
    \/ \E k \in {"wrap", "fail", "repeat"} : With(k)
    \/ When("flag", BrOne)
    \/ Assemble
    \/ \E t \in Trav, c \in Contexts(BOOLEAN, {MaxCount}, {None}) : Invoke(t, c)
    \/ \E t \in Trav : Step(t)
    \/ \E t \in Trav : Discard(t)

SpecShared == Init /\ [][NextShared]_vars

\* the handlers that end a chain or handle a failure, and a predicate that
\* works on the context
NextHandlers ==
    \/ \E k \in {"wrap", "fail", "end", "catch"} : With(k)
    \/ \E p \in {"flag", "mark"}, f \in {BrOne, BrFail, BrEnd} : When(p, f)
    \/ Assemble
    \/ \E c \in Contexts(BOOLEAN, {0, MaxCount}, {None}) : Invoke(1, c)
    \/ Step(1)
    \/ Discard(1)

SpecHandlers == Init /\ [][NextHandlers]_vars

\* one caller whose traversal always goes on: invoke is a synchronous call,
\* so a handler that can take a step takes it
NextLive ==
    \/ \E k \in {"repeat", "wrap", "fail", "trip", "end"} : With(k)
    \/ Assemble
    \/ \E c \in Contexts({FALSE}, 0..MaxCount, {None}) : Invoke(1, c)
    \/ Step(1)

SpecLive == Init /\ [][NextLive]_vars /\ WF_vars(Step(1))

\* -------------------------------------------------------------- claims
Done(t) == phase = "assembled" /\ trav[t].st = "done"
Running(t) == phase = "assembled" /\ trav[t].st = "running"
Result(t) == trav[t].ret[1]

RECURSIVE OnlyKinds(_, _)
OnlyKinds(ops, kinds) ==
    \A i \in 1..Len(ops) :
        /\ ops[i].kind \in kinds
        /\ ops[i].kind = "when" => (ops[i].f /= <<>> /\ OnlyKinds(ops[i].f, kinds))

\* the log of handlers that nest without branching: pre-entries in order,
\* then post-entries in reverse order
Nested(ops) ==
    [i \in 1..Len(ops) |-> Pre(ops[i].id)]
    \o [i \in 1..Len(ops) |-> Post(ops[Len(ops) + 1 - i].id)]

\* C1: with middleware m0..mk registered through with, each logging before
\* and after its continuation and none failing, one invoke logs
\* m0-pre .. mk-pre, mk-post .. m0-post: each runs once, pre-phases in
\* registration order, post-phases in reverse order.
C1_PrePostOrder ==
    \A t \in Trav :
        (Done(t) /\ OnlyKinds(registered, {"wrap"}))
            => /\ trav[t].log = Nested(registered)
               /\ Result(t) = Ok

C1_Witness ==
    /\ Done(1)
    /\ OnlyKinds(registered, {"wrap"})
    /\ Len(registered) >= 3
    /\ Len(trav[1].log) = 2 * Len(registered)

\* C2: assembling a builder on which nothing was registered completes and
\* yields the terminal handle.
C2_EmptyAssembleIsTerminal ==
    [][(registered = <<>> /\ middleware = <<>> /\ Assemble)
          => (phase' = "assembled" /\ pipeline' = Pipeline(None))]_vars

\* the log the registration ops prescribes for context c when every handler
\* calls its continuation: a when entry runs its branch or the rest of the
\* outer chain, never both
RECURSIVE Route(_, _)
Route(ops, c) ==
    IF ops = <<>> THEN <<>>
    ELSE LET op == Head(ops)
         IN  IF op.kind = "when"
             THEN Predicate(op.pred, c).out
                  \o (IF Predicate(op.pred, c).val
                      THEN Route(op.f, Predicate(op.pred, c).ctx)
                      ELSE Route(Tail(ops), Predicate(op.pred, c).ctx))
             ELSE <<Pre(op.id)>> \o Route(Tail(ops), Touch(c)) \o <<Post(op.id)>>

WhenExample == <<Mw("wrap", 1), WhenOp("flag", BrOne), Mw("wrap", 3)>>

\* C3: a when entry routes exclusively: predicate true runs the branch and
\* nothing registered after the when, predicate false runs the outer
\* continuation and nothing of the branch.  [m0, when(flag, [b0]), m1] logs
\* m0-pre b0-pre b0-post m0-post with the flag set and
\* m0-pre m1-pre m1-post m0-post without.
C3_WhenExclusive ==
    \A t \in Trav :
        /\ (Done(t) /\ OnlyKinds(registered, {"wrap", "when"}))
              => trav[t].log = Route(registered, trav[t].ctx0)
        /\ (Done(t) /\ registered = WhenExample)
              => trav[t].log =
                    IF trav[t].ctx0.ty = "Context" /\ trav[t].ctx0.take_branch
                    THEN <<Pre(1), Pre(11), Post(11), Post(1)>>
                    ELSE <<Pre(1), Pre(3), Post(3), Post(1)>>

C3_Witness ==
    /\ Done(1)
    /\ registered = WhenExample
    /\ trav[1].ctx0.ty = "Context"
    /\ trav[1].ctx0.take_branch
    /\ trav[1].log = <<Pre(1), Pre(11), Post(11), Post(1)>>

\* the ids of the failing handlers registered by ops, branches included
RECURSIVE FailIds(_)
FailIds(ops) ==
    IF ops = <<>> THEN {}
    ELSE (IF Head(ops).kind = "fail" THEN {Head(ops).id} ELSE {})
         \cup FailIds(Head(ops).f) \cup FailIds(Tail(ops))

\* the positions of the log at which a failing handler ran
FailedAt(t) ==
    {i \in 1..Len(trav[t].log) :
        trav[t].log[i][1] = "pre" /\ trav[t].log[i][2] \in FailIds(registered)}

\* C4: when a handler fails and the handlers above it propagate, invoke
\* returns that handler's error itself, and no handler after the failing one
\* runs: the failing handler's entry is the last of the log.
C4_ErrorPropagates ==
    \A t \in Trav :
        (Done(t) /\ OnlyKinds(registered, {"wrap", "fail", "when", "repeat"}))
            => IF FailedAt(t) = {}
               THEN Result(t) = Ok
               ELSE /\ FailedAt(t) = {Len(trav[t].log)}
                    /\ Result(t) = Err(trav[t].log[Len(trav[t].log)][2])

C4_Witness ==
    /\ Done(1)
    /\ Len(registered) = 3
    /\ registered[1].kind = "wrap"
    /\ registered[2].kind = "fail"
    /\ registered[3].kind = "when"
    /\ Result(1) = Err(2)
    /\ trav[1].log = <<Pre(1), Pre(2)>>

\* C5: no build-time operation fails: new, with, when (whatever the branch
\* function registers) and assemble all complete.
C5_BuildNeverFails == phase /= "panicked"

\* the closures reachable from handle p are those registered by ops, in
\* order, and the last one's continuation is the terminal handle
RECURSIVE Matches(_, _, _)
Matches(p, ops, h) ==
    IF ops = <<>> THEN p.next = None
    ELSE /\ p.next /= None
         /\ LET th == h[p.next[1]]
                op == Head(ops)
            IN  /\ th.mw.kind = op.kind
                /\ th.mw.id = op.id
                /\ th.mw.pred = op.pred
                /\ op.kind = "when" => Matches(th.mw.branch, op.f, h)
                /\ Matches(ThunkNext(th), Tail(ops), h)

\* the handle that the activation on top of t's stack invokes in its next
\* step, if any
Invoking(t) == MwStep(Top(trav[t].stack), trav[t].ctx, Ok).invoke

\* C6: invoking a handle without continuation returns success at once,
\* runs nothing and leaves the context as it is; the continuation of the last
\* middleware of a chain, and of a branch, is such a handle.
C6_TerminalHandle ==
    [][/\ phase = "assembled" => Matches(pipeline, registered, heap)
       /\ \A t \in Trav :
            (/\ Running(t)
             /\ trav[t].ret = None
             /\ Invoking(t) /= None
             /\ Invoking(t)[1].next = None
             /\ trav'[t] /= trav[t])
            => /\ trav'[t].ret = Some(Ok)
               /\ Len(trav'[t].stack) = Len(trav[t].stack)
               /\ trav'[t].ctx = trav[t].ctx
               /\ trav'[t].log = trav[t].log
               /\ heap' = heap]_vars

C6_Witness ==
    /\ Running(1)
    /\ Len(trav[1].stack) = 3
    /\ Top(trav[1].stack).mw.id = 22
    /\ Top(trav[1].stack).pc = "post"
    /\ Top(trav[1].stack).next = Pipeline(None)
    /\ trav[1].ret = Some(Ok)

\* s repeated n times
RECURSIVE Rep(_, _)
Rep(n, s) == IF n = 0 THEN <<>> ELSE s \o Rep(n - 1, s)

\* how often entry e occurs in log l
Count(l, e) == Cardinality({i \in 1..Len(l) : l[i] = e})

\* the number of traversals for which should_repeat holds when each of the k
\* handlers of the continuation counts the counter down by one
Rounds(n, k) == (n + k - 1) \div k

\* C7: with repeat ahead of a continuation that counts the context's counter
\* down and never fails, and a context of the expected type for which
\* should_repeat holds for N traversals, one invoke runs the continuation N
\* times (each time followed by the sleep, if a delay is given) and returns
\* success; counter 3 and delay 0 run it 3 times.
C7_RepeatRuns ==
    \A t \in Trav :
        (/\ Done(t)
         /\ Len(registered) >= 2
         /\ registered[1].kind = "repeat"
         /\ OnlyKinds(Tail(registered), {"wrap"})
         /\ Downcast(trav[t].ctx0))
        => LET c0 == trav[t].ctx0
               k == Len(registered) - 1
               N == Rounds(c0.count, k)
               zz == IF delay(c0) = None THEN <<>> ELSE <<Slept(delay(c0)[1])>>
           IN  /\ trav[t].log = Rep(N, Nested(Tail(registered)) \o zz)
               /\ Count(trav[t].log, Pre(2)) = N
               /\ Result(t) = Ok
               /\ (k = 1 /\ c0.count = 3 /\ delay(c0) = Some(0))
                     => Count(trav[t].log, Pre(2)) = 3

C7_Witness ==
    /\ Done(1)
    /\ registered = <<Mw("repeat", 1), Mw("wrap", 2)>>
    /\ trav[1].ctx0 = Ctx("Context", FALSE, 3, Some(0))
    /\ Count(trav[1].log, Pre(2)) = 3
    /\ Count(trav[1].log, Slept(0)) = 3
    /\ Result(1) = Ok

\* the context after i handlers did their pre-continuation work on c
RECURSIVE Touched(_, _)
Touched(c, i) == IF i = 0 THEN c ELSE Touched(Touch(c), i - 1)

\* C8: repeat::<T> invoked with a context of another type returns success,
\* never calls its continuation, so that nothing registered after it runs,
\* and leaves the context as it found it.
C8_MismatchNoop ==
    \A t \in Trav : \A i \in 1..Len(registered) :
        (/\ Done(t)
         /\ registered[i].kind = "repeat"
         /\ OnlyKinds(SubSeq(registered, 1, i - 1), {"wrap"})
         /\ ~Downcast(trav[t].ctx0))
        => /\ trav[t].log = Nested(SubSeq(registered, 1, i - 1))
           /\ trav[t].ctx = Touched(trav[t].ctx0, i - 1)
           /\ Result(t) = Ok

C8_Witness ==
    /\ Done(1)
    /\ Len(registered) = 3
    /\ registered[1].kind = "wrap"
    /\ registered[2].kind = "repeat"
    /\ registered[3].kind = "wrap"
    /\ trav[1].ctx0 = Ctx("Other", FALSE, 2, None)
    /\ trav[1].ctx = Ctx("Other", FALSE, 1, None)
    /\ trav[1].log = <<Pre(1), Post(1)>>

\* C9: the assembled pipeline keeps nothing from one invocation to the next:
\* whatever was invoked before, an invocation on a context equal to the
\* initial context of an earlier one has that one's log, final context and
\* result.
C9_InvokeRepeatable ==
    \A t \in Trav :
        (Done(t) /\ earlier /= None /\ earlier[1].ctx0 = trav[t].ctx0)
            => earlier[1] = Outcome(trav[t])

C9_Witness ==
    /\ Done(1)
    /\ earlier /= None
    /\ earlier[1].ctx0 = trav[1].ctx0
    /\ Len(registered) = 3
    /\ registered[2].kind = "when"
    /\ registered[3].kind = "fail"
    /\ trav[1].ctx0.take_branch
    /\ Len(trav[1].log) >= 4

\* the traversal of handle p on context c run on its own, to its end
RECURSIVE RunLocal(_, _, _)
RunLocal(L, h, fuel) ==
    IF L.st /= "running" \/ fuel = 0 \/ Len(L.log) >= MaxLog THEN L
    ELSE CHOOSE end \in {RunLocal(r.local, r.heap, fuel - 1) :
                             r \in {StepLocal(L, h)}} : TRUE

RunAlone(p, c, h) ==
    CHOOSE end \in {RunLocal(r.local, r.heap, MaxFuel) :
                        r \in {invoke(Start(c), <<>>, p, h)}} : TRUE

AloneEq ==
    \A t \in Trav :
        Done(t) => trav[t] = RunAlone(pipeline, trav[t].ctx0, heap)

\* C10: two callers invoking the same pipeline, each with its own context,
\* their middleware steps interleaved in any way: each ends with the log,
\* context and result of running alone, and no step changes the closures
\* the pipeline shares.
C10_SharedPipeline ==
    [][/\ phase = "assembled" => (heap' = heap /\ pipeline' = pipeline)
       /\ AloneEq']_vars

C10_Witness ==
    /\ Done(1)
    /\ trav[2].st = "running"
    /\ Len(trav[2].stack) >= 2
    /\ trav[2].ctx /= trav[2].ctx0
    /\ trav[1].ctx /= trav[1].ctx0
    /\ trav[1].ctx0 /= trav[2].ctx0
    /\ Len(trav[1].log) >= 4


\* C11: assemble consumes the builder.  Once a pipeline has been assembled
\* the builder is gone: no step registers anything more or assembles again,
\* so the list of registrations, the pipeline and the closures of its chain
\* stay what they were when assemble returned, and the builder's list stays
\* moved out.
C11_AssembleConsumes ==
    [][phase = "assembled"
          => /\ phase' = "assembled"
             /\ registered' = registered
             /\ middleware' = <<>>
             /\ pipeline' = pipeline
             /\ heap' = heap]_vars
C11_Witness ==
    /\ phase = "assembled"
    /\ Len(registered) = MaxLen
    /\ middleware = <<>>
    /\ Done(1)

\* the pre-entries of handlers in order, and their post-entries in reverse
Pres(ops) == [i \in 1..Len(ops) |-> Pre(ops[i].id)]
Posts(ops) == [i \in 1..Len(ops) |-> Post(ops[Len(ops) + 1 - i].id)]

\* C12: end returns success without calling its continuation.  With end at
\* position i of a chain whose earlier handlers log and propagate, nothing
\* registered after position i runs, the post-phases of the earlier handlers
\* run in reverse order and invoke returns success; the same holds inside a
\* branch: in the branch [b0, end, b2], b2 and the outer continuation of the
\* when never run.
C12_EndStops ==
    \A t \in Trav : \A i \in 1..Len(registered) :
        LET before == SubSeq(registered, 1, i - 1)
            c0 == trav[t].ctx0
        IN  /\ (/\ Done(t)
                /\ registered[i].kind = "end"
                /\ OnlyKinds(before, {"wrap"}))
               => /\ trav[t].log = Nested(before)
                  /\ Result(t) = Ok
            /\ (/\ Done(t)
                /\ registered[i].kind = "when"
                /\ registered[i].f = BrEnd
                /\ OnlyKinds(before, {"wrap"})
                /\ Predicate(registered[i].pred, Touched(c0, i - 1)).val)
               => /\ trav[t].log =
                        Pres(before)
                        \o Predicate(registered[i].pred, Touched(c0, i - 1)).out
                        \o <<Pre(71), Post(71)>>
                        \o Posts(before)
                  /\ Result(t) = Ok

C12_Witness ==
    /\ Done(1)
    /\ registered = <<Mw("wrap", 1), WhenOp("flag", BrEnd), Mw("fail", 3)>>
    /\ trav[1].log = <<Pre(1), Pre(71), Post(71), Post(1)>>
    /\ Result(1) = Ok

\* C13: a failure leaves no post-phase and no rollback behind.  When the
\* handler at position i fails and the handlers before it propagate, the log
\* is exactly the pre-entries of positions 1..i, no post-entry of an earlier
\* handler follows, and the context keeps what the pre-phases of positions
\* 1..i did to it.
C13_NoPostNoRollback ==
    \A t \in Trav : \A i \in 1..Len(registered) :
        (/\ Done(t)
         /\ registered[i].kind = "fail"
         /\ OnlyKinds(SubSeq(registered, 1, i - 1), {"wrap"}))
        => /\ trav[t].log = Pres(SubSeq(registered, 1, i))
           /\ \A j \in 1..i : Count(trav[t].log, Post(j)) = 0
           /\ trav[t].ctx = Touched(trav[t].ctx0, i)
           /\ Result(t) = Err(i)

C13_Witness ==
    /\ Done(1)
    /\ registered = <<Mw("wrap", 1), Mw("wrap", 2), Mw("fail", 3)>>
    /\ trav[1].ctx0.count = MaxCount
    /\ trav[1].ctx.count = MaxCount - 3
    /\ trav[1].log = <<Pre(1), Pre(2), Pre(3)>>
    /\ Result(1) = Err(3)

\* C14: a failure inside a taken branch is the failure of the when entry.
\* With the predicate true and a handler of the branch failing, the when
\* entry returns that handler's error and never calls its outer
\* continuation: behind logging handlers, when(p, [b0, failing b1]) logs the
\* earlier pre-entries, b0-pre and b1-pre and nothing registered after the
\* when, and invoke returns b1's error.
C14_BranchFailure ==
    \A t \in Trav : \A i \in 1..Len(registered) :
        LET before == SubSeq(registered, 1, i - 1)
            p == Predicate(registered[i].pred, Touched(trav[t].ctx0, i - 1))
        IN  (/\ Done(t)
             /\ registered[i].kind = "when"
             /\ registered[i].f = BrFail
             /\ OnlyKinds(before, {"wrap"})
             /\ p.val)
            => /\ trav[t].log = Pres(before) \o p.out \o <<Pre(31), Pre(32)>>
               /\ \A j \in (i + 1)..Len(registered) :
                      Count(trav[t].log, Pre(j)) = 0
               /\ Result(t) = Err(32)

C14_Witness ==
    /\ Done(1)
    /\ registered = <<Mw("wrap", 1), WhenOp("flag", BrFail), Mw("wrap", 3)>>
    /\ trav[1].ctx0.take_branch
    /\ trav[1].log = <<Pre(1), Pre(31), Pre(32)>>
    /\ Result(1) = Err(32)

\* C15: building does no work that depends on a context.  While the builder
\* is in use no handler and no predicate has run and no context has been
\* read or written; a when registration runs its branch function once on a
\* new empty builder and assembles the branch at that moment, so that the
\* closures of the branch are exactly the branch function's registrations
\* and exist before assemble is called; no closure is created once the
\* pipeline is assembled.
C15_BuildIsContextFree ==
    [][/\ phase = "building"
          => /\ trav' = trav
             /\ \A t \in Trav : trav[t] = Idle
             /\ \A i \in 1..Len(heap) : heap'[i] = heap[i]
             /\ (registered' /= registered
                 /\ registered'[Len(registered')].kind = "when")
                => /\ Len(heap') > Len(heap)
                   /\ Matches(middleware'[Len(middleware')].branch,
                              registered'[Len(registered')].f, heap')
       /\ phase = "assembled" => heap' = heap]_vars

C15_Witness ==
    /\ phase = "building"
    /\ registered = <<Mw("wrap", 1), WhenOp("flag", BrNested)>>
    /\ Len(heap) = 4
    /\ Matches(middleware[2].branch, BrNested, heap)
    /\ \A t \in Trav : trav[t] = Idle

\* ------------------------------------------- the variant in src/src/lib.rs
\* The older crate has with, assemble and invoke only; its middleware are fn
\* pointers returning Result<(), PipelineError>, and each closure of the
\* chain is  move |ctx| { mw(ctx, Pipeline { .. })?; Ok(()) }.

\* middleware.into_iter().rev()
RootIntoIterRev(v) == [i \in 1..Len(v) |-> v[Len(v) + 1 - i]]

\* the closures built by the older assemble
RootAssembleFirst(mw, a) == [mw |-> mw, n |-> None]
RootAssembleWrap(mw, n) == [mw |-> mw, n |-> Some(n)]

\* what a closure of the older chain returns when its middleware returned x:
\* mw(..)?; Ok(()).  RootClosureReturnOk is a closure without the ?.
RootClosureReturnOk(x) == Ok
RootClosureReturn(x) == IF x.ok THEN Ok ELSE Err(x.err)

RECURSIVE RootAssembleLoop(_, _, _)
RootAssembleLoop(iter, chain, h) ==
    IF iter = <<>> THEN [chain |-> chain, heap |-> h]
    ELSE LET mw == Head(iter)
             a == Len(h) + 1
         IN  IF chain = None
             THEN RootAssembleLoop(Tail(iter), Some(Pipeline(Some(a))),
                                   Append(h, RootAssembleFirst(mw, a)))
             ELSE LET n == chain[1].next[1]
                  IN  RootAssembleLoop(Tail(iter), Some(Pipeline(Some(a))),
                                       Append(h, RootAssembleWrap(mw, n)))

RootAssemble(mws, h) ==
    LET r == RootAssembleLoop(RootIntoIterRev(mws), None, h)
    IN  IF r.chain = None
        THEN [panic |-> TRUE, pipeline |-> Pipeline(None), heap |-> h]
        ELSE [panic |-> FALSE, pipeline |-> r.chain[1], heap |-> r.heap]

\* the older Pipeline::invoke: Ok(()) without a next, else the closure
\* called, ?, Ok(())
RootInvokeReturn(x) == IF x.ok THEN Ok ELSE Err(x.err)

RootInvoke(L, s, p, h) ==
    IF p.next = None
    THEN [local |-> [L EXCEPT !.stack = s, !.ret = Some(Ok),
                              !.st = IF s = <<>> THEN "done" ELSE "running"],
          heap |-> h]
    ELSE [local |-> [L EXCEPT !.stack = Append(s, Call(h[p.next[1]])),
                              !.ret = None, !.st = "running"],
          heap |-> h]

\* one step of the activation on top of the stack, in a chain of the older
\* variant
RootStepLocal(L, h) ==
    LET fr == Top(L.stack)
        r == IF L.ret = None THEN Ok ELSE L.ret[1]
        e == MwStep(fr, L.ctx, r)
        L1 == [L EXCEPT !.ctx = e.ctx, !.log = L.log \o e.out]
    IN  IF e.pc = "return"
        THEN [local |->
                [L1 EXCEPT !.stack = Pop(L.stack),
                           !.ret = Some(RootInvokeReturn(
                                            RootClosureReturn(e.ret[1]))),
                           !.st = IF Len(L.stack) = 1 THEN "done"
                                  ELSE "running"],
              heap |-> h]
        ELSE IF e.invoke = None
        THEN [local |-> [L1 EXCEPT !.stack = SetPc(L.stack, e.pc),
                                   !.ret = None],
              heap |-> h]
        ELSE RootInvoke(L1, SetPc(L.stack, e.pc), e.invoke[1], h)

RECURSIVE RootRunLocal(_, _, _)
RootRunLocal(L, h, fuel) ==
    IF L.st /= "running" \/ fuel = 0 \/ Len(L.log) >= MaxLog THEN L
    ELSE CHOOSE end \in {RootRunLocal(r.local, r.heap, fuel - 1) :
                             r \in {RootStepLocal(L, h)}} : TRUE

\* the older variant's builder given the registrations ops, assembled, and
\* the pipeline invoked on context c
RECURSIVE RootWith(_, _)
RootWith(mws, ops) ==
    IF ops = <<>> THEN mws
    ELSE RootWith(Append(mws, Head(ops)), Tail(ops))

RootRun(ops, c) ==
    CHOOSE end \in {RootRunLocal(r.local, r.heap, MaxFuel) :
                        r \in {RootInvoke(Start(c), <<>>, b.pipeline, b.heap) :
                                   b \in {RootAssemble(RootWith(<<>>, ops),
                                                       <<>>)}}} : TRUE

WithOnly(ops) == OnlyKinds(ops, {"wrap", "fail", "end", "catch"})

\* C16: the two variants are the same core.  For every list registered
\* through with only and every context, the pipeline that the older
\* variant's assemble builds from the list ends its traversal with the log,
\* the context and the result of the libmw pipeline; and the list that
\* one variant cannot assemble the other cannot assemble either.
C16_VariantsAgree ==
    /\ \A t \in Trav :
          (Done(t) /\ WithOnly(registered))
          => LET R == RootRun(registered, trav[t].ctx0)
             IN  /\ R.st = "done"
                 /\ R.log = trav[t].log
                 /\ R.ctx = trav[t].ctx
                 /\ R.ret = trav[t].ret
    /\ (phase /= "building" /\ WithOnly(registered))
          => (phase = "panicked") = RootAssemble(RootWith(<<>>, registered), <<>>).panic

C16_Witness ==
    /\ Done(1)
    /\ registered = <<Mw("wrap", 1), Mw("catch", 2), Mw("fail", 3)>>
    /\ RootRun(registered, trav[1].ctx0).log = <<Pre(1), Pre(2), Pre(3), Post(2), Post(1)>>
    /\ trav[1].log = <<Pre(1), Pre(2), Pre(3), Post(2), Post(1)>>
    /\ Result(1) = Ok

\* C17: only a handler recovers from an error, the core never does.  When
\* the handler at position i handles its continuation's failure and returns
\* success, behind handlers that log and propagate, invoke returns success
\* and the post-phases of positions i..1 close the log as in a run without
\* failure; and when no handler handles failures, a failure that happened is
\* what invoke returns.
C17_OnlyMiddlewareRecovers ==
    \A t \in Trav :
        /\ \A i \in 1..Len(registered) :
              (/\ Done(t)
               /\ registered[i].kind = "catch"
               /\ OnlyKinds(SubSeq(registered, 1, i - 1), {"wrap"}))
              => LET upto == SubSeq(registered, 1, i)
                     n == Len(trav[t].log)
                 IN  /\ Result(t) = Ok
                     /\ n >= 2 * i
                     /\ SubSeq(trav[t].log, 1, i) = Pres(upto)
                     /\ SubSeq(trav[t].log, n - i + 1, n) = Posts(upto)
                     /\ (i < Len(registered) /\ registered[i + 1].kind = "fail")
                           => trav[t].log = Pres(upto) \o <<Pre(i + 1)>>
                                            \o Posts(upto)
        /\ (/\ Done(t)
            /\ OnlyKinds(registered, {"wrap", "fail", "end", "when"})
            /\ FailedAt(t) /= {})
           => ~Result(t).ok

C17_Witness ==
    /\ Done(1)
    /\ registered = <<Mw("wrap", 1), Mw("catch", 2), Mw("fail", 3)>>
    /\ FailedAt(1) = {3}
    /\ trav[1].log = <<Pre(1), Pre(2), Pre(3), Post(2), Post(1)>>
    /\ Result(1) = Ok

\* how many entries of log l are of kind k
CountKind(l, k) == Cardinality({i \in 1..Len(l) : l[i][1] = k})

\* the when entries of ops whose predicate is p
Whens(ops, p) == {i \in 1..Len(ops) : ops[i].kind = "when" /\ ops[i].pred = p}

\* C18: a when predicate is evaluated once each time its entry is reached,
\* before any handler of the branch or of the outer continuation runs, and
\* not at all when an earlier handler fails or ends the chain; what the
\* predicate does to the context stays.  With a predicate that reports its
\* call and counts the context's counter down: behind logging handlers the
\* report follows the earlier pre-entries at once, there is one report when
\* the branch is taken or no other such when is registered, there is none
\* when a failing or ending handler comes first, and the final counter has
\* the predicate's decrement along with every pre-phase's.
C18_PredicateOnce ==
    \A t \in Trav :
        /\ \A i \in Whens(registered, "mark") :
              LET before == SubSeq(registered, 1, i - 1)
                  p == Predicate("mark", Touched(trav[t].ctx0, i - 1))
              IN  (Done(t) /\ OnlyKinds(before, {"wrap"}))
                  => /\ SubSeq(trav[t].log, 1, i) = Pres(before) \o <<Asked(0)>>
                     /\ (p.val \/ Whens(registered, "mark") = {i})
                           => Count(trav[t].log, Asked(0)) = 1
        /\ \A j \in 1..Len(registered) :
              (/\ Done(t)
               /\ registered[j].kind \in {"fail", "end"}
               /\ OnlyKinds(SubSeq(registered, 1, j - 1), {"wrap"}))
              => Count(trav[t].log, Asked(0)) = 0
        /\ Done(t)
              => trav[t].ctx =
                    Touched(trav[t].ctx0,
                            CountKind(trav[t].log, "pre")
                            + CountKind(trav[t].log, "pred"))

C18_Witness ==
    /\ Done(1)
    /\ registered = <<Mw("wrap", 1), WhenOp("mark", BrOne), Mw("wrap", 3)>>
    /\ trav[1].ctx0 = Ctx("Context", FALSE, MaxCount, None)
    /\ trav[1].log = <<Pre(1), Asked(0), Pre(3), Post(3), Post(1)>>
    /\ trav[1].ctx.count = MaxCount - 3

\* C19: repeat ends with its continuation's first failure.  With repeat
\* ahead of a handler that fails in its j-th run, and a context of the
\* expected type, invoke returns that handler's error, the handler has run
\* j times, a sleep follows each of the j - 1 runs that succeeded and none
\* follows the failed one, and should_repeat still holds of the context that
\* is left: the loop ended by the failure, not by its condition.  The
\* handler that fails when it leaves the counter at one fails in run
\* counter - 1; the handler that always fails fails in run 1.
C19_RepeatStopsOnError ==
    \A t \in Trav :
        LET c0 == trav[t].ctx0
            zz == IF delay(c0) = None THEN <<>> ELSE <<Slept(delay(c0)[1])>>
        IN  /\ (/\ Done(t)
                /\ Len(registered) >= 2
                /\ registered[1].kind = "repeat"
                /\ registered[2].kind = "trip"
                /\ Downcast(c0)
                /\ c0.count >= 2)
               => LET j == c0.count - 1
                  IN  /\ Result(t) = Err(2)
                      /\ Count(trav[t].log, Pre(2)) = j
                      /\ trav[t].log = Rep(j - 1, <<Pre(2)>> \o zz) \o <<Pre(2)>>
                      /\ should_repeat(trav[t].ctx)
            /\ (/\ Done(t)
                /\ Len(registered) >= 2
                /\ registered[1].kind = "repeat"
                /\ registered[2].kind = "fail"
                /\ Downcast(c0)
                /\ should_repeat(c0))
               => /\ Result(t) = Err(2)
                  /\ trav[t].log = <<Pre(2)>>
                  /\ trav[t].ctx = Touch(c0)

C19_Witness ==
    /\ Done(1)
    /\ registered = <<Mw("repeat", 1), Mw("trip", 2)>>
    /\ trav[1].ctx0 = Ctx("Context", FALSE, 3, Some(0))
    /\ trav[1].log = <<Pre(2), Slept(0), Pre(2)>>
    /\ trav[1].ctx.count = 1
    /\ Result(1) = Err(2)

\* repeat is the first handler and the context is of its type
RepeatFirst(t) ==
    /\ Len(registered) >= 1
    /\ registered[1].kind = "repeat"
    /\ Downcast(trav[t].ctx0)

\* a chain that neither changes the context nor fails: the terminal handle,
\* a chain that starts with end, or a repeat ahead of such a chain
RECURSIVE NoProgress(_)
NoProgress(ops) ==
    \/ ops = <<>>
    \/ Head(ops).kind = "end"
    \/ Head(ops).kind = "repeat" /\ NoProgress(Tail(ops))

\* should_repeat holds at the start and the continuation of the first
\* handler never makes it false and never fails
LoopsForever(t) ==
    /\ RepeatFirst(t)
    /\ should_repeat(trav[t].ctx0)
    /\ NoProgress(Tail(registered))

\* should_repeat is false at the start, or every run of the continuation
\* counts the counter down or fails
LoopEnds(t) ==
    /\ RepeatFirst(t)
    /\ \/ ~should_repeat(trav[t].ctx0)
       \/ /\ Len(registered) >= 2
          /\ registered[2].kind \in {"wrap", "fail", "trip"}
          /\ OnlyKinds(Tail(registered), {"wrap", "fail", "trip", "end"})

\* C20: an invoke through repeat with a context of its type returns when
\* should_repeat becomes false after finitely many runs of the continuation
\* or a run fails, and only then: a traversal whose continuation counts the
\* counter down or fails reaches its return, and a traversal whose
\* continuation never changes the context and never fails never returns,
\* however many steps it takes.
C20_RepeatTermination ==
    /\ [](\A t \in Trav : LoopsForever(t) => ~Done(t))
    /\ \A t \in Trav : (Running(t) /\ LoopEnds(t)) ~> Done(t)

C20_Witness ==
    /\ Running(1)
    /\ registered = <<Mw("repeat", 1), Mw("end", 2)>>
    /\ should_repeat(trav[1].ctx0)
    /\ Len(trav[1].stack) = 1
    /\ Top(trav[1].stack).pc = "back"
    /\ trav[1].ret = Some(Ok)

====
